---- MODULE Spec2Model ----
(***************************************************************************)
(* The self-playing piece stacker of SelfTetris.ino: the 7x10 board, the   *)
(* falling piece, the legality check, the placement evaluator and the      *)
(* game tick of loop(); the ball and brick game of PixelTest.ino; and the  *)
(* bouncing line of IntensityTest.ino.                                     *)
(***************************************************************************)
EXTENDS Integers, Sequences, FiniteSets, TLC

\* ------------------------------------------------------------ constants
BOARD_WIDTH == 7
BOARD_HEIGHT == 10
NUM_TETROMINO == 3
HOLE_PENALTY == 3
LINE_CLEAR_BONUS == 10
MAX_HEIGHT_PENALTY == 1

\* Number of game updates (ticks of loop()) explored from an initial state.
MaxTicks == 6

\* Game updates explored from the empty board after setup(): the life of
\* the first piece.
MaxFallTicks == 11

\* Calls of loop() of the ball and brick game explored from an initial state.
MaxLoops == 16

\* Calls of loop() of the bouncing line explored from an initial state.
MaxLineLoops == 12

Rows == 0 .. (BOARD_HEIGHT - 1)
Cols == 0 .. (BOARD_WIDTH - 1)

\* CRGB values that occur on the board; Black is the empty cell.
Black == "Black"
tetrominoColors == <<"Cyan", "Yellow", "Magenta">>

\* tetrominoes[type][rotation][block] = {x offset, y offset}; TLA+ tuples
\* are 1-based, Offset gives the 0-based access of the C array.
tetrominoes ==
  << << << <<0,0>>, <<1,0>>, <<2,0>>, <<3,0>> >>,
        << <<0,0>>, <<0,1>>, <<0,2>>, <<0,3>> >>,
        << <<0,0>>, <<1,0>>, <<2,0>>, <<3,0>> >>,
        << <<0,0>>, <<0,1>>, <<0,2>>, <<0,3>> >> >>,
     << << <<0,0>>, <<1,0>>, <<0,1>>, <<1,1>> >>,
        << <<0,0>>, <<1,0>>, <<0,1>>, <<1,1>> >>,
        << <<0,0>>, <<1,0>>, <<0,1>>, <<1,1>> >>,
        << <<0,0>>, <<1,0>>, <<0,1>>, <<1,1>> >> >>,
     << << <<0,0>>, <<1,0>>, <<2,0>>, <<1,1>> >>,
        << <<1,0>>, <<0,1>>, <<1,1>>, <<1,2>> >>,
        << <<1,0>>, <<0,1>>, <<1,1>>, <<2,1>> >>,
        << <<0,1>>, <<1,0>>, <<1,1>>, <<1,2>> >> >> >>

Offset(type, rot, i, k) == tetrominoes[type + 1][rot + 1][i + 1][k + 1]

\* The value of F at e, with e evaluated once (a local variable of the code
\* that is assigned once and read several times).
Bind(F(_), e) == CHOOSE r \in {F(v) : v \in {e}} : TRUE

\* ---------------------------------------------------------------- state
VARIABLES
  board,         \* board[r][c]: colour of the cell, Black when empty
  currentPiece,  \* [type, rotation, x, y]
  gameOver,      \* the gameOver flag
  ticks,         \* game updates done since the initial state
  last,          \* what the latest loop() iteration did (observation only)
  call,          \* the latest direct call of an evaluator function and its result
  \* PixelTest.ino, the ball and brick game
  paddle,        \* [x, y]
  ball,          \* [x, y, dx, dy]
  bricks,        \* bricks[i][j]: TRUE when the brick of row i, column j is present
  brickGameOver, \* the gameOver flag of PixelTest.ino
  currentBrickColorIndex,
  loops,         \* calls of loop() since the initial state
  shown,         \* what the latest call of loop() did (observation only)
  \* IntensityTest.ino, the bouncing line
  currentState,  \* [x, y, dx, dy]
  prevState,     \* the four states before, most recent first
  currentColorIndex,
  lineLoops      \* calls of loop() since the initial state

tetrisVars == <<board, currentPiece, gameOver, ticks, last, call>>

breakoutVars ==
  <<paddle, ball, bricks, brickGameOver, currentBrickColorIndex, loops, shown>>

lineVars == <<currentState, prevState, currentColorIndex, lineLoops>>

vars == <<tetrisVars, breakoutVars, lineVars>>

\* Only one of the sketches runs on the board: the variables of the
\* others hold this value.
NotLoaded == "not loaded"

TetrisOff ==
  /\ board = NotLoaded /\ currentPiece = NotLoaded /\ gameOver = NotLoaded
  /\ ticks = NotLoaded /\ last = NotLoaded /\ call = NotLoaded

BreakoutOff ==
  /\ paddle = NotLoaded /\ ball = NotLoaded /\ bricks = NotLoaded
  /\ brickGameOver = NotLoaded /\ currentBrickColorIndex = NotLoaded
  /\ loops = NotLoaded /\ shown = NotLoaded

LineOff ==
  /\ currentState = NotLoaded /\ prevState = NotLoaded
  /\ currentColorIndex = NotLoaded /\ lineLoops = NotLoaded

\* clearBoard(): every cell Black.
clearBoard == [r \in Rows |-> [c \in Cols |-> Black]]

\* ------------------------------------------------------------- canPlace
\* The for loop of canPlace from block i on: false at the first block that
\* is out of bounds or on a non-Black cell, true after the fourth.
RECURSIVE canPlaceFrom(_, _, _, _, _, _)
canPlaceFrom(b, p, newX, newY, newRotation, i) ==
  IF i >= 4 THEN TRUE
  ELSE LET blockX == newX + Offset(p.type, newRotation, i, 0)
           blockY == newY + Offset(p.type, newRotation, i, 1)
       IN  IF blockX < 0 \/ blockX >= BOARD_WIDTH \/ blockY < 0 \/ blockY >= BOARD_HEIGHT
             THEN FALSE
           ELSE IF b[blockY][blockX] # Black
             THEN FALSE
           ELSE canPlaceFrom(b, p, newX, newY, newRotation, i + 1)

\* Faulty variant: the loop starts at block 1, so block 0 is never tested.
canPlace_SkipsBlock0(b, p, newX, newY, newRotation) ==
  canPlaceFrom(b, p, newX, newY, newRotation, 1)

canPlace(b, p, newX, newY, newRotation) ==
  canPlaceFrom(b, p, newX, newY, newRotation, 0)

\* ------------------------------------------------- simulateCandidateScore
\* The loop that writes a piece's four blocks into a grid (lockPiece on the
\* live board, and the same loop on temp in simulateCandidateScore): a block
\* outside the board is skipped.
RECURSIVE writeBlocks(_, _, _, _, _, _)
writeBlocks(g, type, x, y, rot, i) ==
  IF i >= 4 THEN g
  ELSE LET blockX == x + Offset(type, rot, i, 0)
           blockY == y + Offset(type, rot, i, 1)
           g1 == IF blockY >= 0 /\ blockY < BOARD_HEIGHT /\ blockX >= 0 /\ blockX < BOARD_WIDTH
                   THEN [g EXCEPT ![blockY][blockX] = tetrominoColors[type + 1]]
                   ELSE g
       IN  writeBlocks(g1, type, x, y, rot, i + 1)

\* Holes of one column, scanning rows top to bottom with the foundBlock flag.
RECURSIVE holesInColumn(_, _, _, _)
holesInColumn(temp, col, row, foundBlock) ==
  IF row >= BOARD_HEIGHT THEN 0
  ELSE IF temp[row][col] # Black
    THEN holesInColumn(temp, col, row + 1, TRUE)
  ELSE (IF foundBlock THEN 1 ELSE 0) + holesInColumn(temp, col, row + 1, foundBlock)

RECURSIVE countHolesFrom(_, _)
countHolesFrom(temp, col) ==
  IF col >= BOARD_WIDTH THEN 0
  ELSE holesInColumn(temp, col, 0, FALSE) + countHolesFrom(temp, col + 1)

\* Faulty variant: the foundBlock flag starts set, so empty cells above a column's
\* first block are counted as holes too.
countHoles_FlagStartsSet(temp) ==
  LET RECURSIVE from(_)
      from(col) == IF col >= BOARD_WIDTH THEN 0
                   ELSE holesInColumn(temp, col, 0, TRUE) + from(col + 1)
  IN  from(0)

countHoles(temp) == countHolesFrom(temp, 0)

\* The inner loop of the full-line test: false at the first Black cell.
RECURSIVE fullLineFrom(_, _, _)
fullLineFrom(g, r, c) ==
  IF c >= BOARD_WIDTH THEN TRUE
  ELSE IF g[r][c] = Black THEN FALSE
  ELSE fullLineFrom(g, r, c + 1)

RECURSIVE countFullLinesFrom(_, _)
countFullLinesFrom(temp, r) ==
  IF r >= BOARD_HEIGHT THEN 0
  ELSE (IF fullLineFrom(temp, r, 0) THEN 1 ELSE 0) + countFullLinesFrom(temp, r + 1)

\* Faulty variant: the row loop stops one row early and never looks at the
\* bottom row.
countFullLines_SkipsBottomRow(temp) ==
  LET RECURSIVE from(_)
      from(r) == IF r >= BOARD_HEIGHT - 1 THEN 0
                 ELSE (IF fullLineFrom(temp, r, 0) THEN 1 ELSE 0) + from(r + 1)
  IN  from(0)

countFullLines(temp) == countFullLinesFrom(temp, 0)

\* colHeight of one column: BOARD_HEIGHT - row at the first non-Black cell
\* from the top (break), 0 when the column has none.
RECURSIVE colHeightFrom(_, _, _)
colHeightFrom(temp, col, row) ==
  IF row >= BOARD_HEIGHT THEN 0
  ELSE IF temp[row][col] # Black THEN BOARD_HEIGHT - row
  ELSE colHeightFrom(temp, col, row + 1)

\* Faulty variant: the distance from the top edge (row) instead of BOARD_HEIGHT - row.
colHeight_FromTop(temp, col) ==
  LET RECURSIVE from(_)
      from(row) == IF row >= BOARD_HEIGHT THEN 0
                   ELSE IF temp[row][col] # Black THEN row
                   ELSE from(row + 1)
  IN  from(0)

colHeight(temp, col) == colHeightFrom(temp, col, 0)

RECURSIVE maxHeightFrom(_, _, _)
maxHeightFrom(temp, col, maxHeight) ==
  IF col >= BOARD_WIDTH THEN maxHeight
  ELSE Bind(LAMBDA m : maxHeightFrom(temp, col + 1, m),
            Bind(LAMBDA colH : IF colH > maxHeight THEN colH ELSE maxHeight,
                 colHeight(temp, col)))

computeMaxHeight(temp) == maxHeightFrom(temp, 0, 0)

\* Faulty variant: the hole penalty is added instead of subtracted.
scoreFormula_HolesRewarded(landingY, holes, linesCleared, maxHeight) ==
  landingY + HOLE_PENALTY * holes + LINE_CLEAR_BONUS * linesCleared
    - MAX_HEIGHT_PENALTY * maxHeight

\* Faulty variant: the hole term is left out.
scoreFormula_HolesIgnored(landingY, holes, linesCleared, maxHeight) ==
  landingY + LINE_CLEAR_BONUS * linesCleared - MAX_HEIGHT_PENALTY * maxHeight

scoreFormula(landingY, holes, linesCleared, maxHeight) ==
  landingY - HOLE_PENALTY * holes + LINE_CLEAR_BONUS * linesCleared
    - MAX_HEIGHT_PENALTY * maxHeight

\* Faulty variant: temp aliases the live board, so the simulated lock is written
\* to the board itself.
simulatedBoard_Aliased(b, temp) == temp

\* The live board after simulateCandidateScore returns: the function
\* writes only its local copy temp, never board.
simulatedBoard(b, temp) == b

\* simulateCandidateScore: the score, its terms, the local grid temp and
\* the live board as the call leaves it.
simulateCandidateScore(b, candidate, testX, landingY, testRot) ==
  Bind(LAMBDA temp :
    Bind(LAMBDA holes :
      Bind(LAMBDA linesCleared :
        Bind(LAMBDA maxHeight :
               [score |-> scoreFormula(landingY, holes, linesCleared, maxHeight),
                holes |-> holes,
                linesCleared |-> linesCleared,
                maxHeight |-> maxHeight,
                temp |-> temp,
                board |-> simulatedBoard(b, temp)],
             computeMaxHeight(temp)),
           countFullLines(temp)),
         countHoles(temp)),
       writeBlocks(b, candidate.type, testX, landingY, testRot, 0))

\* ------------------------------------------------------ findBestPlacement
\* maxOffset of a rotation: the largest x offset of its four blocks,
\* starting from 0.
RECURSIVE maxOffsetFrom(_, _, _, _)
maxOffsetFrom(type, rot, i, maxOffset) ==
  IF i >= 4 THEN maxOffset
  ELSE LET x_offset == Offset(type, rot, i, 0)
       IN  maxOffsetFrom(type, rot, i + 1,
                         IF x_offset > maxOffset THEN x_offset ELSE maxOffset)

maxOffsetOf(type, rot) == maxOffsetFrom(type, rot, 0, 0)

\* The while loop of the drop simulation from row landingY: the landing
\* row and the number of canPlace tests the loop has made.
\* Faulty variant: an if in place of the while, one row of descent at most.
dropFrom_IfNotWhile(b, p, x, rot, landingY, tests) ==
  IF canPlace(b, p, x, landingY + 1, rot)
    THEN [landingY |-> landingY + 1, tests |-> tests + 1]
    ELSE [landingY |-> landingY, tests |-> tests + 1]

RECURSIVE dropFrom(_, _, _, _, _, _)
dropFrom(b, p, x, rot, landingY, tests) ==
  IF canPlace(b, p, x, landingY + 1, rot)
    THEN dropFrom(b, p, x, rot, landingY + 1, tests + 1)
    ELSE [landingY |-> landingY, tests |-> tests + 1]

\* Faulty variant: the loop tests two rows below instead of one, so it can
\* stop a row early.
dropSimulation_TestsTwoBelow(b, p, x, rot) ==
  LET RECURSIVE from(_, _)
      from(landingY, tests) ==
        IF canPlace(b, p, x, landingY + 2, rot)
          THEN from(landingY + 1, tests + 1)
          ELSE [landingY |-> landingY, tests |-> tests + 1]
  IN  from(0, 0)

\* Faulty variant: the descent starts from landingY = 1 instead of 0.
dropSimulation_StartsAtRow1(b, p, x, rot) == dropFrom(b, p, x, rot, 1, 0)

dropSimulation(b, p, x, rot) == dropFrom(b, p, x, rot, 0, 0)

\* Faulty variant: >= instead of >, which keeps the last of equal scores.
betterScore_OrEqual(score, bestScore) == score >= bestScore

betterScore(score, bestScore) == score > bestScore

\* Faulty variant: maxOffset is left at 0, so every rotation's loop runs
\* over all 7 columns.
maxX_IgnoresOffset(type, rot) == BOARD_WIDTH

\* maxX of a rotation: the loop visits the columns 0 .. maxX - 1.
maxX(type, rot) == BOARD_WIDTH - maxOffsetOf(type, rot)

\* One scored candidate: the drop from row 0, then simulateCandidateScore
\* at the landing row.
scoreCandidate(b, p, x, rot) ==
  Bind(LAMBDA landingY :
         Bind(LAMBDA sim : [rot |-> rot, x |-> x, landingY |-> landingY,
                            score |-> sim.score, holes |-> sim.holes,
                            linesCleared |-> sim.linesCleared,
                            maxHeight |-> sim.maxHeight, board |-> sim.board],
              simulateCandidateScore(b, p, x, landingY, rot)),
       dropSimulation(b, p, x, rot).landingY)

\* What the search keeps of a scored candidate.
candidateRecord(c) == [rot |-> c.rot, x |-> c.x, landingY |-> c.landingY, score |-> c.score,
              holes |-> c.holes, linesCleared |-> c.linesCleared,
              maxHeight |-> c.maxHeight]

\* The inner loop of findBestPlacement: the columns x .. maxX - 1 of rotation
\* rot. acc holds bestScore, chosenX, chosenRot, the number of candidates
\* scored and the live board as the calls made so far have left it, with the
\* <<rot, x>> the loop has visited and the candidates it has scored.
RECURSIVE columnsFrom(_, _, _, _)
columnsFrom(acc, p, rot, x) ==
  IF x >= maxX(p.type, rot) THEN acc
  ELSE IF ~canPlace(acc.board, p, x, 0, rot)
    THEN Bind(LAMBDA acc1 : columnsFrom(acc1, p, rot, x + 1),
              [acc EXCEPT !.visited = @ \cup {<<rot, x>>}])
  ELSE Bind(LAMBDA acc1 : columnsFrom(acc1, p, rot, x + 1),
            Bind(LAMBDA c :
                   IF betterScore(c.score, acc.bestScore)
                     THEN [bestScore |-> c.score, chosenX |-> x, chosenRot |-> rot,
                           scored |-> acc.scored + 1, board |-> c.board,
                           visited |-> acc.visited \cup {<<rot, x>>},
                           cands |-> acc.cands \cup {candidateRecord(c)}]
                     ELSE [acc EXCEPT !.scored = @ + 1, !.board = c.board,
                                      !.visited = @ \cup {<<rot, x>>},
                                      !.cands = @ \cup {candidateRecord(c)}],
                 scoreCandidate(acc.board, p, x, rot)))

\* The two nested loops of findBestPlacement from candidate (rot, x) on:
\* the rest of rotation rot, then the rotations after it from column 0.
RECURSIVE searchFrom(_, _, _, _)
searchFrom(acc, p, rot, x) ==
  IF rot >= 4 THEN acc
  ELSE Bind(LAMBDA acc1 : searchFrom(acc1, p, rot + 1, 0),
            columnsFrom(acc, p, rot, x))

\* findBestPlacement on live board b and live piece p: the out-parameters
\* bestX and bestRotation, and the globals as the call leaves them.
\* Faulty variant: bestScore starts so high that no candidate is better, and
\* chosenX and chosenRot keep the live piece's column and rotation.
findBestPlacement_NothingBetter(b, p) ==
  Bind(LAMBDA acc :
         [bestX |-> acc.chosenX, bestRotation |-> acc.chosenRot,
          bestScore |-> acc.bestScore, scored |-> acc.scored,
          visited |-> acc.visited, cands |-> acc.cands,
          board |-> acc.board, currentPiece |-> p],
       Bind(LAMBDA acc0 : searchFrom(acc0, p, 0, 0),
            [bestScore |-> 10000, chosenX |-> p.x, chosenRot |-> p.rotation,
             scored |-> 0, visited |-> {}, cands |-> {}, board |-> b]))

findBestPlacement(b, p) ==
  Bind(LAMBDA acc :
         [bestX |-> acc.chosenX, bestRotation |-> acc.chosenRot,
          bestScore |-> acc.bestScore, scored |-> acc.scored,
          visited |-> acc.visited, cands |-> acc.cands,
          board |-> acc.board, currentPiece |-> p],
       Bind(LAMBDA acc0 : searchFrom(acc0, p, 0, 0),
            [bestScore |-> -10000, chosenX |-> p.x, chosenRot |-> p.rotation,
             scored |-> 0, visited |-> {}, cands |-> {}, board |-> b]))

\* ------------------------------------------------- spawn, lock, clearLines
\* The spawn column of a piece type, by its width.
spawnX(type) ==
  IF type = 0 THEN (BOARD_WIDTH - 4) \div 2
  ELSE IF type = 1 THEN (BOARD_WIDTH - 2) \div 2
  ELSE (BOARD_WIDTH - 3) \div 2

\* spawnPiece with random(0, NUM_TETROMINO) = type, on board b with the
\* flag at go: the new piece and the flag.
\* Faulty variant: the collision test looks one row below the spawn row.
spawnPiece_TestsRowBelow(b, type, go) ==
  LET p == [type |-> type, rotation |-> 0, x |-> spawnX(type), y |-> 0]
  IN  [currentPiece |-> p,
       gameOver |-> IF ~canPlace(b, p, p.x, p.y + 1, p.rotation) THEN TRUE ELSE go]

\* Faulty variant: the flag is never raised.
spawnPiece_KeepsFlag(b, type, go) ==
  [currentPiece |-> [type |-> type, rotation |-> 0, x |-> spawnX(type), y |-> 0],
   gameOver |-> go]

spawnPiece(b, type, go) ==
  LET p == [type |-> type, rotation |-> 0, x |-> spawnX(type), y |-> 0]
  IN  [currentPiece |-> p,
       gameOver |-> IF ~canPlace(b, p, p.x, p.y, p.rotation) THEN TRUE ELSE go]

lockPiece(b, p) == writeBlocks(b, p.type, p.x, p.y, p.rotation, 0)

\* The inner shift loop of clearLines: for row = r down to 1,
\* board[row] = board[row - 1].
RECURSIVE shiftDownFrom(_, _)
shiftDownFrom(g, row) ==
  IF row <= 0 THEN g
  ELSE Bind(LAMBDA g1 : shiftDownFrom(g1, row - 1), [g EXCEPT ![row] = g[row - 1]])

\* The outer loop of clearLines from row r on: a full row is overwritten by
\* the rows above it and the top row is cleared. lines counts the rows found
\* full.
RECURSIVE clearLinesFrom(_, _, _)
clearLinesFrom(g, r, lines) ==
  IF r >= BOARD_HEIGHT THEN [board |-> g, lines |-> lines]
  ELSE IF fullLineFrom(g, r, 0)
    THEN Bind(LAMBDA cleared : clearLinesFrom(cleared, r + 1, lines + 1),
              [shiftDownFrom(g, r) EXCEPT ![0] = [c \in Cols |-> Black]])
  ELSE clearLinesFrom(g, r + 1, lines)

\* Faulty variant: the outer loop runs from the bottom row up, so the row
\* shifted into a cleared row is never examined.
clearLines_BottomUp(b) ==
  LET RECURSIVE up(_, _, _)
      up(g, r, lines) ==
        IF r < 0 THEN [board |-> g, lines |-> lines]
        ELSE IF fullLineFrom(g, r, 0)
          THEN Bind(LAMBDA cleared : up(cleared, r - 1, lines + 1),
                    [shiftDownFrom(g, r) EXCEPT ![0] = [c \in Cols |-> Black]])
        ELSE up(g, r - 1, lines)
  IN  Bind(LAMBDA g : up(g, BOARD_HEIGHT - 1, 0), b)

clearLines(b) == Bind(LAMBDA g : clearLinesFrom(g, 0, 0), b)

\* --------------------------------------------------- performStrategicMove
NoTarget == <<>>

\* The rotation branch: newRot = (rotation + 1) % 4 is tried at x, then at
\* x - 1, then at x + 1, and the first placement canPlace accepts is taken.
\* Faulty variant: the retry one column to the left is left out.
rotationStep_SkipsLeftKick(b1, p1) ==
  Bind(LAMBDA newRot :
         IF canPlace(b1, p1, p1.x, p1.y, newRot)
           THEN [p1 EXCEPT !.rotation = newRot]
         ELSE IF canPlace(b1, p1, p1.x + 1, p1.y, newRot)
           THEN [p1 EXCEPT !.x = @ + 1, !.rotation = newRot]
         ELSE p1,
       (p1.rotation + 1) % 4)

rotationStep(b1, p1) ==
  Bind(LAMBDA newRot :
         IF canPlace(b1, p1, p1.x, p1.y, newRot)
           THEN [p1 EXCEPT !.rotation = newRot]
         ELSE IF canPlace(b1, p1, p1.x - 1, p1.y, newRot)
           THEN [p1 EXCEPT !.x = @ - 1, !.rotation = newRot]
         ELSE IF canPlace(b1, p1, p1.x + 1, p1.y, newRot)
           THEN [p1 EXCEPT !.x = @ + 1, !.rotation = newRot]
         ELSE p1,
       (p1.rotation + 1) % 4)

\* The translation branch: one column toward bestX when canPlace accepts it.
\* Faulty variant: the step is taken without asking canPlace.
translationStep_IgnoresCollision(b1, p1, bestX) ==
  IF p1.x < bestX THEN [p1 EXCEPT !.x = @ + 1]
  ELSE IF p1.x > bestX THEN [p1 EXCEPT !.x = @ - 1]
  ELSE p1

translationStep(b1, p1, bestX) ==
  IF p1.x < bestX
    THEN IF canPlace(b1, p1, p1.x + 1, p1.y, p1.rotation)
           THEN [p1 EXCEPT !.x = @ + 1]
           ELSE p1
  ELSE IF p1.x > bestX
    THEN IF canPlace(b1, p1, p1.x - 1, p1.y, p1.rotation)
           THEN [p1 EXCEPT !.x = @ - 1]
           ELSE p1
  ELSE p1

\* The part of performStrategicMove after findBestPlacement has returned:
\* one rotation step with the two shifted retries, or one column toward
\* bestX.
strategicStep(b1, p1, bestX, bestRot) ==
  [currentPiece |->
     IF p1.rotation # bestRot
       THEN rotationStep(b1, p1)
       ELSE translationStep(b1, p1, bestX),
   board |-> b1,
   target |-> <<bestX, bestRot>>]

\* The error branch: move = random(0, 2) picks left or right, and the piece
\* moves one column that way when canPlace accepts it.
\* Faulty variant: the piece moves two columns.
errorMove_TwoColumns(b, p, move) ==
  IF move = 0 /\ canPlace(b, p, p.x - 1, p.y, p.rotation)
    THEN [p EXCEPT !.x = @ - 2]
  ELSE IF move = 1 /\ canPlace(b, p, p.x + 1, p.y, p.rotation)
    THEN [p EXCEPT !.x = @ + 2]
  ELSE p

\* Faulty variant: the error branch moves the piece without asking canPlace.
errorMove_IgnoresCollision(b, p, move) ==
  IF move = 0 THEN [p EXCEPT !.x = @ - 1] ELSE [p EXCEPT !.x = @ + 1]

errorMove(b, p, move) ==
  IF move = 0 /\ canPlace(b, p, p.x - 1, p.y, p.rotation)
    THEN [p EXCEPT !.x = @ - 1]
  ELSE IF move = 1 /\ canPlace(b, p, p.x + 1, p.y, p.rotation)
    THEN [p EXCEPT !.x = @ + 1]
  ELSE p

\* performStrategicMove on board b and piece p. err is random(0, 100) < 10,
\* move is random(0, 2) of the error branch. Gives the piece and the board
\* after the call, and the target <<bestX, bestRot>> when it was computed,
\* with the number of candidates findBestPlacement scored for it.
performStrategicMove(b, p, err, move) ==
  IF err
    THEN [currentPiece |-> errorMove(b, p, move),
          board |-> b,
          target |-> NoTarget,
          scored |-> 0]
    ELSE Bind(LAMBDA best : [scored |-> best.scored] @@
                            strategicStep(best.board, best.currentPiece,
                                          best.bestX, best.bestRotation),
              findBestPlacement(b, p))

\* ----------------------------------------------------------------- loop
PieceTypes == 0 .. (NUM_TETROMINO - 1)

\* A game update of loop() with gameOver false: the strategic move, then
\* the descent by one row, or lockPiece, clearLines and spawnPiece.
\* last.age counts the game updates the piece of the update has been
\* through since its spawn, this one included.
\* Faulty variant: the descent leaves the piece in its row.
descend_StaysInRow(p) == p

\* currentPiece.y++
descend(p) == [p EXCEPT !.y = @ + 1]

TickWithin(bound) ==
  /\ ~gameOver
  /\ ticks < bound
  /\ \E err \in BOOLEAN, move \in 0 .. 1, age \in {IF last.op = "tick" /\ ~last.locked
                                                      THEN last.age + 1 ELSE 1} :
       \E m \in {performStrategicMove(board, currentPiece, err, move)} :
         \E p \in {m.currentPiece} :
           IF canPlace(m.board, p, p.x, p.y + 1, p.rotation)
             THEN /\ currentPiece' = descend(p)
                  /\ board' = m.board
                  /\ gameOver' = gameOver
                  /\ last' = [op |-> "tick", err |-> err, target |-> m.target,
                              start |-> currentPiece, moved |-> p,
                              locked |-> FALSE, cleared |-> 0, age |-> age,
                              scored |-> m.scored]
             ELSE \E type \in PieceTypes :
                    \E cl \in {clearLines(lockPiece(m.board, p))} :
                      \E sp \in {spawnPiece(cl.board, type, gameOver)} :
                        /\ currentPiece' = sp.currentPiece
                        /\ board' = cl.board
                        /\ gameOver' = sp.gameOver
                        /\ last' = [op |-> "tick", err |-> err, target |-> m.target,
                                    start |-> currentPiece, moved |-> p,
                                    locked |-> TRUE, cleared |-> cl.lines, age |-> age,
                                    scored |-> m.scored]
  /\ ticks' = ticks + 1
  /\ UNCHANGED <<call, breakoutVars, lineVars>>

Tick == TickWithin(MaxTicks)

\* loop() with gameOver true: gameOverSequence clears the board, resets the
\* flag and spawns.
GameOverSequence ==
  /\ gameOver
  /\ ticks < MaxTicks
  /\ \E type \in PieceTypes :
       LET sp == spawnPiece(clearBoard, type, FALSE)
       IN  /\ board' = clearBoard
           /\ currentPiece' = sp.currentPiece
           /\ gameOver' = sp.gameOver
           /\ last' = [op |-> "gameOverSequence", err |-> FALSE, target |-> NoTarget,
                       start |-> sp.currentPiece, moved |-> sp.currentPiece,
                       locked |-> FALSE, cleared |-> 0, age |-> 0, scored |-> 0]
  /\ ticks' = ticks + 1
  /\ UNCHANGED <<call, breakoutVars, lineVars>>

\* ---------------------------------------------------------------- boards
\* Positions of the game, each the board as it stands after a lock and
\* clearLines in a play of the sketch. A row is written with 0 for Black
\* and 1, 2, 3 for the colours of I, O and T.
palette == <<Black>> \o tetrominoColors

FromRows(rows) == [r \in Rows |-> [c \in Cols |-> palette[rows[r + 1][c + 1] + 1]]]

OverhangBoard ==
  FromRows(<< <<0,0,0,0,0,0,0>>,
               <<0,0,0,0,0,0,0>>,
               <<0,0,0,0,0,0,0>>,
               <<0,0,0,0,0,0,0>>,
               <<0,0,0,0,0,0,0>>,
               <<0,0,0,0,0,0,0>>,
               <<0,0,0,0,0,0,0>>,
               <<0,0,0,0,3,0,0>>,
               <<0,0,0,3,3,0,0>>,
               <<0,0,0,0,3,0,0>> >>)

OneGapBoard ==
  FromRows(<< <<0,0,0,0,0,0,0>>,
               <<0,0,0,0,0,0,0>>,
               <<0,0,0,0,0,0,0>>,
               <<0,0,0,0,0,0,0>>,
               <<0,0,0,0,0,0,0>>,
               <<0,0,0,0,0,0,0>>,
               <<0,0,0,0,0,0,0>>,
               <<0,0,0,0,0,0,0>>,
               <<0,0,0,0,0,0,0>>,
               <<0,0,0,0,1,2,2>> >>)

TwoLineBoard ==
  FromRows(<< <<0,0,0,0,0,0,0>>,
               <<0,0,0,0,0,0,0>>,
               <<0,0,0,0,0,0,0>>,
               <<0,0,0,0,0,0,0>>,
               <<0,0,0,0,0,0,0>>,
               <<0,0,0,0,0,0,0>>,
               <<0,0,0,0,0,0,0>>,
               <<0,0,0,0,0,0,0>>,
               <<1,1,1,2,2,0,0>>,
               <<1,1,1,2,2,0,0>> >>)

TallBoard ==
  FromRows(<< <<0,0,0,0,0,0,0>>,
               <<0,0,0,0,0,0,0>>,
               <<0,0,3,1,1,1,1>>,
               <<0,3,3,3,0,0,0>>,
               <<0,0,3,0,0,0,0>>,
               <<0,3,3,3,0,0,0>>,
               <<0,2,2,0,0,0,0>>,
               <<0,2,2,0,0,0,0>>,
               <<2,2,0,0,0,0,0>>,
               <<2,2,0,0,0,0,0>> >>)

BlockedBoard ==
  FromRows(<< <<1,1,1,1,0,0,0>>,
               <<0,0,1,1,1,1,0>>,
               <<0,0,3,1,1,1,1>>,
               <<0,3,3,3,0,0,0>>,
               <<0,0,3,0,0,0,0>>,
               <<0,3,3,3,0,0,0>>,
               <<0,2,2,0,0,0,0>>,
               <<0,2,2,0,0,0,0>>,
               <<2,2,0,0,0,0,0>>,
               <<2,2,0,0,0,0,0>> >>)

HolesBoard ==
  FromRows(<< <<1,0,0,0,0,0,0>>,
               <<1,0,0,0,2,2,0>>,
               <<1,1,2,2,2,2,0>>,
               <<1,1,2,2,3,0,0>>,
               <<1,1,0,3,3,2,2>>,
               <<1,1,0,3,3,2,2>>,
               <<1,1,0,3,0,2,2>>,
               <<1,1,0,2,2,2,2>>,
               <<1,1,1,1,0,2,2>>,
               <<1,1,1,1,0,3,3>> >>)

TowerBoard ==
  FromRows(<<
    <<0,0,0,0,0,0,0>>,
    <<0,0,0,0,0,0,0>>,
    <<0,0,0,0,0,0,0>>,
    <<0,0,0,0,0,0,0>>,
    <<0,0,0,0,0,0,0>>,
    <<0,0,0,0,0,0,0>>,
    <<2,2,0,0,0,0,0>>,
    <<2,2,0,0,0,0,0>>,
    <<2,2,0,0,0,0,0>>,
    <<2,2,1,1,1,1,0>> >>)

BottomGapBoard ==
  FromRows(<<
    <<0,0,0,0,0,0,0>>,
    <<0,0,0,0,0,0,0>>,
    <<0,0,0,0,0,0,0>>,
    <<0,0,0,0,0,0,0>>,
    <<0,0,0,0,0,0,0>>,
    <<0,0,0,0,0,0,0>>,
    <<0,0,0,0,0,0,0>>,
    <<0,0,0,0,0,0,0>>,
    <<0,0,0,0,0,0,0>>,
    <<2,2,1,1,1,1,0>> >>)

\* After the fifth lock of a play: a vertical I in column 6 fills rows 7
\* and 9 and leaves row 8 open at column 2.
StaggeredBoard ==
  FromRows(<<
    <<0,0,0,0,0,0,0>>,
    <<0,0,0,0,0,0,0>>,
    <<0,0,0,0,0,0,0>>,
    <<0,0,0,0,0,0,0>>,
    <<0,0,0,0,0,1,0>>,
    <<0,0,0,0,0,1,0>>,
    <<0,0,0,0,0,1,0>>,
    <<2,2,3,3,3,1,0>>,
    <<2,2,0,3,2,2,0>>,
    <<1,1,1,1,2,2,0>> >>)

\* Boards the game is explored from.
StartBoards == {clearBoard, TallBoard, TowerBoard}

NoCall == [fn |-> "none"]

SetupLast(p) == [op |-> "setup", err |-> FALSE, target |-> NoTarget,
                 start |-> p, moved |-> p, locked |-> FALSE, cleared |-> 0,
                 age |-> 0, scored |-> 0]

\* The game right after spawnPiece on board b: after setup() when b is the
\* empty board, after lockPiece and clearLines otherwise.
Spawned(b) ==
  \E type \in PieceTypes :
    \E sp \in {spawnPiece(b, type, FALSE)} :
      /\ board = b
      /\ currentPiece = sp.currentPiece
      /\ gameOver = sp.gameOver
      /\ ticks = 0
      /\ last = SetupLast(sp.currentPiece)
      /\ call = NoCall
      /\ BreakoutOff
      /\ LineOff

Init == \E b \in StartBoards : Spawned(b)

Next == Tick \/ GameOverSequence

Spec == Init /\ [][Next]_vars

\* The game from setup(): clearBoard(), spawnPiece(), and the game updates
\* of the first piece's life.
InitSetup == Spawned(clearBoard)

FirstPieceTick == TickWithin(MaxFallTicks)

NextSetup == FirstPieceTick

SpecSetup == InitSetup /\ [][NextSetup]_vars

\* ------------------------------------------------- the evaluator, called
\* The evaluator's functions called directly on a position of the game: one
\* call per behaviour, with the call and what it returned kept in call.
EvalBoards ==
  {clearBoard, OverhangBoard, OneGapBoard, TwoLineBoard, TallBoard,
   BlockedBoard, HolesBoard, TowerBoard, BottomGapBoard, StaggeredBoard}

InitEval == \E b \in EvalBoards : Spawned(b)

\* canPlace(currentPiece, x, y, rot) for an anchor on or one step off the
\* board.
EvalCanPlace ==
  \E x \in -1 .. BOARD_WIDTH, y \in -1 .. BOARD_HEIGHT, rot \in 0 .. 3 :
    /\ call = NoCall
    /\ call' = [fn |-> "canPlace", x |-> x, y |-> y, rot |-> rot,
                ret |-> canPlace(board, currentPiece, x, y, rot)]
    /\ UNCHANGED <<board, currentPiece, gameOver, ticks, last, breakoutVars, lineVars>>

\* The candidates findBestPlacement goes on with: the columns of a
\* rotation's loop at which the piece can be placed at row 0.
IsCandidate(b, p, rot, x) ==
  /\ x < maxX(p.type, rot)
  /\ canPlace(b, p, x, 0, rot)

\* The drop simulation of findBestPlacement for one candidate.
EvalDropSimulation ==
  \E rot \in 0 .. 3, x \in Cols :
    /\ call = NoCall
    /\ IsCandidate(board, currentPiece, rot, x)
    /\ \E d \in {dropSimulation(board, currentPiece, x, rot)} :
         call' = [fn |-> "dropSimulation", x |-> x, rot |-> rot,
                  landingY |-> d.landingY, tests |-> d.tests]
    /\ UNCHANGED <<board, currentPiece, gameOver, ticks, last, breakoutVars, lineVars>>

\* The body of findBestPlacement's loops for one candidate: the drop, then
\* simulateCandidateScore at the landing row.
EvalSimulateCandidateScore ==
  \E rot \in 0 .. 3, x \in Cols :
    /\ call = NoCall
    /\ IsCandidate(board, currentPiece, rot, x)
    /\ \E landingY \in {dropSimulation(board, currentPiece, x, rot).landingY} :
         \E sim \in {simulateCandidateScore(board, currentPiece, x, landingY, rot)} :
           /\ call' = [fn |-> "simulateCandidateScore", x |-> x, rot |-> rot,
                       landingY |-> landingY, score |-> sim.score,
                       holes |-> sim.holes, linesCleared |-> sim.linesCleared,
                       maxHeight |-> sim.maxHeight, temp |-> sim.temp]
           /\ board' = sim.board
    /\ UNCHANGED <<currentPiece, gameOver, ticks, last, breakoutVars, lineVars>>

\* findBestPlacement(&bestX, &bestRotation).
EvalFindBestPlacement ==
  /\ call = NoCall
  /\ \E best \in {findBestPlacement(board, currentPiece)} :
       /\ call' = [fn |-> "findBestPlacement", bestX |-> best.bestX,
                   bestRotation |-> best.bestRotation, scored |-> best.scored,
                   visited |-> best.visited, cands |-> best.cands]
       /\ board' = best.board
       /\ currentPiece' = best.currentPiece
  /\ UNCHANGED <<gameOver, ticks, last, breakoutVars, lineVars>>

\* The lock branch of loop() for the piece at rest on a candidate's landing
\* row: lockPiece, then clearLines.
EvalClearLines ==
  \E rot \in 0 .. 3, x \in Cols :
    /\ call = NoCall
    /\ IsCandidate(board, currentPiece, rot, x)
    /\ \E landingY \in {dropSimulation(board, currentPiece, x, rot).landingY} :
         \E locked \in {lockPiece(board, [currentPiece EXCEPT !.x = x, !.y = landingY,
                                                              !.rotation = rot])} :
           \E cl \in {clearLines(locked)} :
             /\ call' = [fn |-> "clearLines", x |-> x, rot |-> rot,
                         before |-> locked, lines |-> cl.lines]
             /\ board' = cl.board
    /\ UNCHANGED <<currentPiece, gameOver, ticks, last, breakoutVars, lineVars>>

NextEval ==
  \/ EvalCanPlace
  \/ EvalDropSimulation
  \/ EvalSimulateCandidateScore
  \/ EvalFindBestPlacement
  \/ EvalClearLines

SpecEval == InitEval /\ [][NextEval]_vars

\* ------------------------------------ PixelTest.ino: ball and brick game
BrickRows == 0 .. 2
BrickCols == 0 .. 6

constrain(v, lo, hi) == IF v < lo THEN lo ELSE IF v > hi THEN hi ELSE v

max(a, b) == IF a > b THEN a ELSE b

\* initializeGame: the paddle, the ball, the flag and the bricks as it
\* leaves them.
initializeGame ==
  [paddle |-> [x |-> 3, y |-> 9],
   ball |-> [x |-> 3, y |-> 8, dx |-> 1, dy |-> -1],
   gameOver |-> FALSE,
   bricks |-> [i \in BrickRows |-> [j \in BrickCols |-> TRUE]]]

\* moveBall, step by step. The position update.
advance(bl) == [bl EXCEPT !.x = @ + bl.dx, !.y = @ + bl.dy]

\* The left and right walls.
wallCollision(bl) ==
  IF bl.x < 0 \/ bl.x >= 7
    THEN [bl EXCEPT !.dx = -bl.dx, !.x = constrain(bl.x, 0, 6)]
    ELSE bl

\* The top wall.
topCollision(bl) ==
  IF bl.y < 0 THEN [bl EXCEPT !.dy = -bl.dy, !.y = 0] ELSE bl

\* The paddle, 3 cells wide from pd.x.
paddleCollision(bl, pd) ==
  IF bl.y = pd.y /\ bl.x >= pd.x /\ bl.x < pd.x + 3
    THEN LET hitPos == bl.x - pd.x
         IN  [bl EXCEPT !.dy = -bl.dy,
                        !.dx = IF hitPos = 0 THEN -1 ELSE IF hitPos = 2 THEN 1 ELSE 0,
                        !.y = pd.y - 1]
    ELSE bl

\* The bricks: a brick at the ball's cell is removed and the ball turns
\* round and steps one row on.
\* access is the <<row, column>> at which the call reads bricks, NoAccess
\* when ball.y < 3 is false and the array is not read.
NoAccess == <<>>

brickCollision(bl, br) ==
  IF bl.y < 3 /\ br[bl.y][bl.x]
    THEN [ball |-> [bl EXCEPT !.dy = -bl.dy,
                              !.y = max(IF -bl.dy < 0 THEN bl.y - 1 ELSE bl.y + 1, 0)],
          bricks |-> [br EXCEPT ![bl.y][bl.x] = FALSE],
          removed |-> TRUE,
          access |-> <<bl.y, bl.x>>]
    ELSE [ball |-> bl, bricks |-> br, removed |-> FALSE,
          access |-> IF bl.y < 3 THEN <<bl.y, bl.x>> ELSE NoAccess]

\* The scan of the win condition: no brick is present.
allCleared(br) == \A i \in BrickRows : \A j \in BrickCols : ~br[i][j]

\* The win branch: the brick colour moves on and the game is initialised.
\* Faulty variant: the colour index is left as it was.
winBranch_KeepsColor(g) ==
  [paddle |-> initializeGame.paddle, ball |-> initializeGame.ball,
   gameOver |-> initializeGame.gameOver, bricks |-> initializeGame.bricks,
   currentBrickColorIndex |-> g.currentBrickColorIndex]

winBranch(g) ==
  [paddle |-> initializeGame.paddle, ball |-> initializeGame.ball,
   gameOver |-> initializeGame.gameOver, bricks |-> initializeGame.bricks,
   currentBrickColorIndex |-> (g.currentBrickColorIndex + 1) % 3]

\* The loss branch: gameOver is set, the loss is displayed for 2 seconds,
\* and the game is initialised.
\* Faulty variant: the branch returns after the display, without
\* initializeGame.
lossBranch_ReturnsInLossState(g) == [g EXCEPT !.gameOver = TRUE]

lossBranch(g) ==
  LET lossState == [g EXCEPT !.gameOver = TRUE]
  IN  [paddle |-> initializeGame.paddle, ball |-> initializeGame.ball,
       gameOver |-> initializeGame.gameOver, bricks |-> initializeGame.bricks,
       currentBrickColorIndex |-> lossState.currentBrickColorIndex]

\* moveBall on game g = [paddle, ball, gameOver, bricks,
\* currentBrickColorIndex]: the game as the call leaves it, and what the
\* call did.
moveBall(g) ==
  LET bl == paddleCollision(topCollision(wallCollision(advance(g.ball))), g.paddle)
      hit == brickCollision(bl, g.bricks)
      moved == [g EXCEPT !.ball = hit.ball, !.bricks = hit.bricks]
  IN  IF allCleared(hit.bricks)
        THEN [game |-> winBranch(moved), removed |-> hit.removed,
              won |-> TRUE, lost |-> FALSE, access |-> hit.access]
      ELSE IF hit.ball.y >= 10
        THEN [game |-> lossBranch(moved), removed |-> hit.removed,
              won |-> FALSE, lost |-> TRUE, access |-> hit.access]
      ELSE [game |-> moved, removed |-> hit.removed, won |-> FALSE, lost |-> FALSE,
            access |-> hit.access]

\* loop(): the RESET button when the flag is set; otherwise the paddle
\* follows the ball with randomOffset = random(-1, 2), and moveBall runs
\* when gameSpeed milliseconds have passed since the last update (due).
\* Faulty variant: the paddle's target column is not clamped.
targetPaddleX_Unclamped(ballX, randomOffset) == ballX - 1 + randomOffset

\* The paddle's target column: ball.x - 1 + randomOffset, clamped to 0 .. 4.
targetPaddleX(ballX, randomOffset) == constrain(ballX - 1 + randomOffset, 0, 4)

BreakoutLoop ==
  /\ loops < MaxLoops
  /\ \E button \in BOOLEAN, randomOffset \in -1 .. 1, due \in BOOLEAN :
       IF brickGameOver /\ button
         THEN /\ paddle' = initializeGame.paddle
              /\ ball' = initializeGame.ball
              /\ brickGameOver' = initializeGame.gameOver
              /\ bricks' = initializeGame.bricks
              /\ UNCHANGED currentBrickColorIndex
              /\ shown' = [op |-> "reset", removed |-> FALSE, won |-> FALSE,
                           lost |-> FALSE, access |-> NoAccess]
       ELSE \E target \in {targetPaddleX(ball.x, randomOffset)} :
              IF due
                THEN \E m \in {moveBall([paddle |-> [paddle EXCEPT !.x = target],
                                         ball |-> ball, gameOver |-> brickGameOver,
                                         bricks |-> bricks,
                                         currentBrickColorIndex |->
                                           currentBrickColorIndex])} :
                       /\ paddle' = m.game.paddle
                       /\ ball' = m.game.ball
                       /\ brickGameOver' = m.game.gameOver
                       /\ bricks' = m.game.bricks
                       /\ currentBrickColorIndex' = m.game.currentBrickColorIndex
                       /\ shown' = [op |-> "update", removed |-> m.removed,
                                    won |-> m.won, lost |-> m.lost,
                                    access |-> m.access]
                ELSE /\ paddle' = [paddle EXCEPT !.x = target]
                     /\ UNCHANGED <<ball, brickGameOver, bricks, currentBrickColorIndex>>
                     /\ shown' = [op |-> "idle", removed |-> FALSE, won |-> FALSE,
                                  lost |-> FALSE, access |-> NoAccess]
  /\ loops' = loops + 1
  /\ UNCHANGED <<tetrisVars, lineVars>>

\* Positions late in a game, from a play that wins at its 258th update:
\* the paddle has just returned the ball, and two bricks or one are left.
OnlyBricks(cells) == [i \in BrickRows |-> [j \in BrickCols |-> <<i, j>> \in cells]]

LateGames ==
  {[paddle |-> [x |-> 1, y |-> 9], ball |-> [x |-> 3, y |-> 8, dx |-> 1, dy |-> -1],
    bricks |-> OnlyBricks(cells)] : cells \in {{<<1, 3>>, <<2, 0>>}, {<<2, 0>>}}}
  \cup
  \* After the 82nd update of a play: 8 bricks are gone, the right end of
  \* row 0 among them, and the paddle has just returned the ball at the left
  \* wall.
  {[paddle |-> [x |-> 0, y |-> 9], ball |-> [x |-> 0, y |-> 8, dx |-> -1, dy |-> -1],
    bricks |-> OnlyBricks((BrickRows \X BrickCols) \
                            {<<0, 5>>, <<0, 6>>, <<1, 5>>, <<1, 6>>,
                             <<2, 1>>, <<2, 4>>, <<2, 5>>, <<2, 6>>})]}

\* The game after setup(), or late in a game of any of the three colours.
InitBreakout ==
  /\ TetrisOff
  /\ LineOff
  /\ loops = 0
  /\ brickGameOver = FALSE
  /\ \/ /\ paddle = initializeGame.paddle
        /\ ball = initializeGame.ball
        /\ bricks = initializeGame.bricks
        /\ currentBrickColorIndex = 0
        /\ shown = [op |-> "setup", removed |-> FALSE, won |-> FALSE, lost |-> FALSE,
                   access |-> NoAccess]
     \/ \E late \in LateGames, index \in 0 .. 2 :
          /\ paddle = late.paddle
          /\ ball = late.ball
          /\ bricks = late.bricks
          /\ currentBrickColorIndex = index
          /\ shown = [op |-> "update", removed |-> FALSE, won |-> FALSE, lost |-> FALSE,
                     access |-> NoAccess]

NextBreakout == BreakoutLoop

SpecBreakout == InitBreakout /\ [][NextBreakout]_vars

\* ------------------------------------ IntensityTest.ino: bouncing line
MATRIX_WIDTH == 7
MATRIX_HEIGHT == 10

\* directions[d]: the 8 directions setup() draws from.
directions ==
  << <<1, 0>>, <<-1, 0>>, <<0, 1>>, <<0, -1>>,
     <<1, 1>>, <<1, -1>>, <<-1, 1>>, <<-1, -1>> >>

\* updateState() on state s: dx is reversed when an endpoint of the line as
\* it stands is off the matrix, likewise dy, and then the centre moves.
updateState(s) ==
  Bind(LAMBDA dx :
         Bind(LAMBDA dy : [x |-> s.x + dx, y |-> s.y + dy, dx |-> dx, dy |-> dy],
              IF s.y - s.dy < 0 \/ s.y + s.dy >= MATRIX_HEIGHT THEN -s.dy ELSE s.dy),
       IF s.x - s.dx < 0 \/ s.x + s.dx >= MATRIX_WIDTH THEN -s.dx ELSE s.dx)

\* One call of loop(): the colour advances when its 30 s are over, and when
\* the 50 ms of an update are over the line moves and the state before
\* enters the afterimage buffer.
LineLoop ==
  /\ lineLoops < MaxLineLoops
  /\ \E colorDue, updateDue \in BOOLEAN :
       /\ currentColorIndex' = IF colorDue THEN (currentColorIndex + 1) % 16
                                           ELSE currentColorIndex
       /\ IF updateDue
            THEN /\ currentState' = updateState(currentState)
                 /\ prevState' = <<currentState, prevState[1], prevState[2], prevState[3]>>
            ELSE UNCHANGED <<currentState, prevState>>
  /\ lineLoops' = lineLoops + 1
  /\ UNCHANGED <<tetrisVars, breakoutVars>>

\* The state after setup(), with random(0, 8) = d.
InitLine ==
  /\ TetrisOff
  /\ BreakoutOff
  /\ \E d \in 0 .. 7 :
       /\ currentState = [x |-> MATRIX_WIDTH \div 2, y |-> MATRIX_HEIGHT \div 2,
                          dx |-> directions[d + 1][1], dy |-> directions[d + 1][2]]
       /\ prevState = <<currentState, currentState, currentState, currentState>>
  /\ currentColorIndex = 0
  /\ lineLoops = 0

NextLine == LineLoop

SpecLine == InitLine /\ [][NextLine]_vars

\* ----------------------------------------------------------- properties
\* The cells <<row, col>> of a piece of the given type and rotation anchored
\* at (x, y).
BlockCells(type, rot, x, y) ==
  {<<y + Offset(type, rot, i, 1), x + Offset(type, rot, i, 0)>> : i \in 0 .. 3}

OnBoard(cell) == 0 <= cell[2] /\ cell[2] < 7 /\ 0 <= cell[1] /\ cell[1] < 10

\* All four blocks inside the board and on empty cells of grid b.
Legal(b, type, rot, x, y) ==
  \A cell \in BlockCells(type, rot, x, y) :
    OnBoard(cell) /\ b[cell[1]][cell[2]] = Black

\* The occupied cells of the live board with a candidate's blocks added.
Occupied(b) == {cell \in Rows \X Cols : b[cell[1]][cell[2]] # Black}

SimOccupied(b, type, rot, x, y) ==
  Occupied(b) \cup {cell \in BlockCells(type, rot, x, y) : OnBoard(cell)}

MaxOf(S) == CHOOSE m \in S : \A n \in S : n <= m

\* The (rotation, column) pairs that are legal at row 0, and the order in
\* which findBestPlacement visits them.
LegalCandidates(b, type) ==
  {c \in (0 .. 3) \X Cols : Legal(b, type, c[1], c[2], 0)}

VisitedBefore(c, d) == c[1] < d[1] \/ (c[1] = d[1] /\ c[2] < d[2])

\* The score findBestPlacement computes for candidate c = <<rot, x>>.
CandidateScore(b, p, c) ==
  simulateCandidateScore(b, p, c[2], dropSimulation(b, p, c[2], c[1]).landingY,
                         c[1]).score

\* C1: canPlace returns true exactly when all 4 block cells anchor+offset lie
\* inside 0 <= col < 7, 0 <= row < 10 and are empty, for every piece type,
\* rotation and anchor, also off the board.
C1_CanPlaceIffLegal ==
  call.fn = "canPlace" =>
    (call.ret <=> Legal(board, currentPiece.type, call.rot, call.x, call.y))

\* A call that is refused for a collision alone: every block on the board,
\* one of them on an occupied cell.
C1_Witness ==
  /\ call.fn = "canPlace"
  /\ call.ret = FALSE
  /\ \A cell \in BlockCells(currentPiece.type, call.rot, call.x, call.y) : OnBoard(cell)
  /\ \E cell \in BlockCells(currentPiece.type, call.rot, call.x, call.y) :
       board[cell[1]][cell[2]] # Black

\* C2: when some candidate is legal at row 0, findBestPlacement returns a
\* legal candidate of greatest score, and among those of greatest score the
\* one visited first (rotation ascending, then column ascending).
C2_FirstBestCandidate ==
  (call.fn = "findBestPlacement" /\ LegalCandidates(board, currentPiece.type) # {}) =>
    LET best == <<call.bestRotation, call.bestX>>
        cands == LegalCandidates(board, currentPiece.type)
        score == [c \in cands |-> CandidateScore(board, currentPiece, c)]
    IN  /\ best \in cands
        /\ \A c \in cands :
             /\ score[c] <= score[best]
             /\ score[c] = score[best] => ~VisitedBefore(c, best)

\* A search in which the greatest score is shared by several candidates and
\* the winner is not the first candidate visited.
C2_Witness ==
  /\ call.fn = "findBestPlacement"
  /\ LET best == <<call.bestRotation, call.bestX>>
         cands == LegalCandidates(board, currentPiece.type)
     IN  /\ best \in cands
         /\ \E c \in cands :
              /\ c # best
              /\ CandidateScore(board, currentPiece, c)
                   = CandidateScore(board, currentPiece, best)
         /\ \E c \in cands :
              /\ VisitedBefore(c, best)
              /\ CandidateScore(board, currentPiece, c)
                   < CandidateScore(board, currentPiece, best)

\* C3: a call of findBestPlacement, of a drop simulation or of
\* simulateCandidateScore leaves every cell of the live board and the live
\* piece's type, rotation, x and y as they were.
C3_SimulationReadOnly ==
  [][call'.fn \in {"findBestPlacement", "dropSimulation", "simulateCandidateScore"}
       => (board' = board /\ currentPiece' = currentPiece)]_vars

\* A search that scored several candidates on a board with locked cells.
C3_Witness ==
  /\ call.fn = "findBestPlacement"
  /\ call.scored >= 2
  /\ board # clearBoard

\* C4: for a candidate legal at row 0 the landing row L is in 0..9, the
\* placement is legal at every row 0..L and illegal at row L+1, and the
\* descent makes at most 10 legality tests.
C4_GreedyLanding ==
  call.fn = "dropSimulation" =>
    /\ call.landingY \in 0 .. 9
    /\ \A y \in 0 .. call.landingY :
         Legal(board, currentPiece.type, call.rot, call.x, y)
    /\ ~Legal(board, currentPiece.type, call.rot, call.x, call.landingY + 1)
    /\ call.tests <= 10

\* A descent to the bottom row, which takes all 10 tests.
C4_Witness ==
  /\ call.fn = "dropSimulation"
  /\ call.landingY = 9
  /\ call.tests = 10

LegalRows(b, type, rot, x) == {y \in Rows : Legal(b, type, rot, x, y)}

\* C5 as stated: the landing row used for scoring is the greatest row at
\* which the 4 blocks are in bounds and on empty cells, also on boards with
\* overhangs.
C5_LandingIsMaxLegalRow ==
  call.fn = "simulateCandidateScore" =>
    call.landingY = MaxOf(LegalRows(board, currentPiece.type, call.rot, call.x))

\* C5 amended: the landing row used for scoring is the greatest row y such
\* that the piece is legal at every row from 0 down to y: the rows legal
\* below the first illegal row (under an overhang) are not reached.
C5_LandingIsDeepestReachableRow ==
  call.fn = "simulateCandidateScore" =>
    call.landingY =
      MaxOf({y \in Rows :
               \A r \in 0 .. y : Legal(board, currentPiece.type, call.rot, call.x, r)})

\* A candidate scored at a landing row above a lower legal row.
C5_Witness ==
  /\ call.fn = "simulateCandidateScore"
  /\ call.landingY < MaxOf(LegalRows(board, currentPiece.type, call.rot, call.x))

FullRows(occupied) == {r \in Rows : \A c \in Cols : <<r, c>> \in occupied}

\* C6: the score is landingY - 3*holes + 10*clearedLines - 1*maxHeight, with
\* clearedLines the number of rows of the simulated board (live board plus
\* the candidate's blocks) whose 7 columns are all occupied.
C6_ScoreFormula ==
  call.fn = "simulateCandidateScore" =>
    LET clearedLines ==
          Cardinality(FullRows(SimOccupied(board, currentPiece.type, call.rot,
                                           call.x, call.landingY)))
    IN  /\ call.linesCleared = clearedLines
        /\ call.score = call.landingY - 3 * call.holes + 10 * clearedLines
                          - 1 * call.maxHeight

\* A candidate that completes rows, scored with a positive landing row and a
\* positive height.
C6_Witness ==
  /\ call.fn = "simulateCandidateScore"
  /\ call.linesCleared >= 1
  /\ call.landingY > 0
  /\ call.maxHeight > 0

\* The empty cells of the simulated board with an occupied cell above them
\* in their column.
HoleCells(occupied) ==
  {cell \in Rows \X Cols :
     /\ cell \notin occupied
     /\ \E r \in Rows : r < cell[1] /\ <<r, cell[2]>> \in occupied}

\* C7: holes is the number of empty cells of the simulated board that have
\* an occupied cell of their column above them, over all 7 columns.
C7_HoleCount ==
  call.fn = "simulateCandidateScore" =>
    call.holes = Cardinality(HoleCells(SimOccupied(board, currentPiece.type, call.rot,
                                                   call.x, call.landingY)))

\* A candidate that adds holes to a board that already has some.
C7_Witness ==
  /\ call.fn = "simulateCandidateScore"
  /\ Cardinality(HoleCells(Occupied(board))) >= 1
  /\ call.holes > Cardinality(HoleCells(Occupied(board)))

\* The row of the topmost occupied cell of column c.
TopRow(occupied, c) == CHOOSE r \in Rows :
  <<r, c>> \in occupied /\ \A r2 \in Rows : <<r2, c>> \in occupied => r <= r2

ColumnUsed(occupied, c) == \E r \in Rows : <<r, c>> \in occupied

\* C8 as stated: a column's height is the distance from the top board edge
\* to its topmost occupied cell (0 for an empty column), maxHeight the
\* greatest of the 7.
C8_HeightFromTopEdge ==
  call.fn = "simulateCandidateScore" =>
    LET occupied == SimOccupied(board, currentPiece.type, call.rot, call.x, call.landingY)
    IN  call.maxHeight =
          MaxOf({IF ColumnUsed(occupied, c) THEN TopRow(occupied, c) ELSE 0 : c \in Cols})

\* C8 amended: a column's height is BOARD_HEIGHT minus the row of its
\* topmost occupied cell, the distance from the bottom board edge up to and
\* including that cell (0 for an empty column), maxHeight the greatest of
\* the 7.
C8_HeightFromBottomEdge ==
  call.fn = "simulateCandidateScore" =>
    LET occupied == SimOccupied(board, currentPiece.type, call.rot, call.x, call.landingY)
    IN  call.maxHeight =
          MaxOf({IF ColumnUsed(occupied, c) THEN 10 - TopRow(occupied, c) ELSE 0 :
                   c \in Cols})

\* A simulated board with columns of different heights, one of them empty.
C8_Witness ==
  /\ call.fn = "simulateCandidateScore"
  /\ LET occupied == SimOccupied(board, currentPiece.type, call.rot, call.x, call.landingY)
     IN  /\ \E c \in Cols : ~ColumnUsed(occupied, c)
         /\ \E c, d \in Cols :
              /\ ColumnUsed(occupied, c) /\ ColumnUsed(occupied, d)
              /\ TopRow(occupied, c) # TopRow(occupied, d)
         /\ call.maxHeight # MaxOf({IF ColumnUsed(occupied, c) THEN TopRow(occupied, c)
                                    ELSE 0 : c \in Cols})

JustSpawned == last.op \in {"setup", "gameOverSequence"} \/ last.locked

\* C10: spawnPiece puts the new piece at rotation 0, row 0 and column 1 (I),
\* 2 (O) or 2 (T) and leaves gameOver true exactly when that placement is
\* illegal on the live board; and from a state with gameOver true the only
\* step is gameOverSequence: an empty board and a fresh spawn, with no move,
\* descent or lock of the colliding piece.
C10_SpawnCollisionIsGameOver ==
  /\ [](JustSpawned =>
          /\ currentPiece.rotation = 0
          /\ currentPiece.y = 0
          /\ currentPiece.x = <<1, 2, 2>>[currentPiece.type + 1]
          /\ gameOver <=> ~Legal(board, currentPiece.type, 0, currentPiece.x, 0))
  /\ [][gameOver =>
          /\ last'.op = "gameOverSequence"
          /\ board' = clearBoard
          /\ currentPiece'.rotation = 0 /\ currentPiece'.y = 0
          /\ ~gameOver']_vars

\* A lock after which the spawned piece collides.
C10_Witness ==
  /\ gameOver
  /\ last.op = "tick"
  /\ last.locked

\* ------------------------------------------------- move selection (4.5)
MinOf(S) == CHOOSE m \in S : \A n \in S : m <= n

\* The columns of the rotation branch in the order they are to be tried.
KickColumns(p) == <<p.x, p.x - 1, p.x + 1>>

\* The column one step from p.x toward bestX, p.x itself at the target.
TowardTarget(p, bestX) ==
  IF p.x < bestX THEN p.x + 1 ELSE IF p.x > bestX THEN p.x - 1 ELSE p.x

C12_TranslationBranch ==
  [][(last'.op = "tick" /\ ~last'.err /\ last'.target[2] = currentPiece.rotation) =>
       LET p == currentPiece
           toX == TowardTarget(p, last'.target[1])
       IN  /\ last'.moved.rotation = p.rotation
           /\ last'.moved =
                IF toX # p.x /\ Legal(board, p.type, p.rotation, toX, p.y)
                  THEN [p EXCEPT !.x = toX]
                  ELSE p]_vars

\* A call whose step toward the target column was blocked.
C12_Witness ==
  /\ last.op = "tick"
  /\ ~last.err
  /\ ~last.locked
  /\ last.target[2] = last.start.rotation
  /\ last.target[1] # last.start.x
  /\ last.moved = last.start
  /\ ~Legal(board, last.start.type, last.start.rotation,
            TowardTarget(last.start, last.target[1]), last.start.y)

\* C13 as stated: every call of performStrategicMove, the random-error
\* branch included, applies exactly one of no action, a rotation step or a
\* translation of one column; it never changes both the rotation and the
\* column, and never changes y.
C13_NeverRotationAndColumn ==
  last.op = "tick" =>
    /\ last.moved.y = last.start.y
    /\ ~(last.moved.rotation # last.start.rotation /\ last.moved.x # last.start.x)

\* C13 amended: every call of performStrategicMove, the random-error branch
\* included, applies exactly one of no action, a rotation step to
\* (rotation + 1) mod 4 at the same column or shifted one column left or
\* right (the shifted rotation changes the rotation and the column in the
\* same call), or a translation of one column at the same rotation; the
\* error branch never rotates, and no call changes y or the piece type.
C13_OneActionPerCall ==
  last.op = "tick" =>
    LET p == last.start
        q == last.moved
    IN  /\ q.y = p.y
        /\ q.type = p.type
        /\ \/ q = p
           \/ q.rotation = (p.rotation + 1) % 4 /\ q.x \in {p.x - 1, p.x, p.x + 1}
           \/ q.rotation = p.rotation /\ q.x \in {p.x - 1, p.x + 1}
        /\ last.err => q.rotation = p.rotation

\* A call that rotated the piece and shifted it one column to the right.
C13_Witness ==
  /\ last.op = "tick"
  /\ last.moved.rotation = (last.start.rotation + 1) % 4
  /\ last.moved.x = last.start.x + 1

\* ------------------------------------------- the search and its scenarios
\* The greatest x offset of the four blocks of a rotation.
RightmostOffset(type, rot) == MaxOf({Offset(type, rot, i, 0) : i \in 0 .. 3})

\* C14: for a rotation whose greatest rightward block offset is k,
\* findBestPlacement visits only the columns 0 <= x <= 7 - 1 - k, every
\* candidate it scores has its 4 blocks inside the board, and the bounds
\* guard of simulateCandidateScore discards no block: the simulated grid has
\* 4 occupied cells more than the live board.
C14_CandidateColumnBound ==
  /\ call.fn = "findBestPlacement" =>
       /\ \A v \in call.visited :
            0 <= v[2] /\ v[2] <= 7 - 1 - RightmostOffset(currentPiece.type, v[1])
       /\ \A c \in call.cands :
            \A cell \in BlockCells(currentPiece.type, c.rot, c.x, c.landingY) :
              OnBoard(cell)
  /\ call.fn = "simulateCandidateScore" =>
       Cardinality(Occupied(call.temp)) = Cardinality(Occupied(board)) + 4

\* A search that scored a candidate of offset 3 in the last column its
\* rotation allows.
C14_Witness ==
  /\ call.fn = "findBestPlacement"
  /\ \E c \in call.cands :
       /\ RightmostOffset(currentPiece.type, c.rot) = 3
       /\ c.x = 7 - 1 - 3

\* All four blocks of the rotation lie in one row.
Horizontal(type, rot) == \A i \in 0 .. 3 : Offset(type, rot, i, 1) = 0

\* C15: on the empty board with an I piece, findBestPlacement returns a
\* horizontal rotation whose drop gave landing row 9, the bottom row.
C15_EmptyBoardHorizontalI ==
  (call.fn = "findBestPlacement" /\ Occupied(board) = {} /\ currentPiece.type = 0) =>
    /\ Horizontal(0, call.bestRotation)
    /\ \E c \in call.cands :
         /\ c.rot = call.bestRotation
         /\ c.x = call.bestX
         /\ c.landingY = 9
    /\ \A cell \in BlockCells(0, call.bestRotation, call.bestX, 9) :
         OnBoard(cell) /\ cell[1] = 9

\* The search on the empty board with the I piece, in which the vertical
\* rotations were scored as well, at landing row 6.
C15_Witness ==
  /\ call.fn = "findBestPlacement"
  /\ Occupied(board) = {}
  /\ currentPiece.type = 0
  /\ \E c \in call.cands : c.rot \in {1, 3} /\ c.landingY = 6

\* The board of the one-gap scenario: row 9 occupied in columns 0..5 and
\* nothing else.
BottomRowButLast == {<<9, c>> : c \in 0 .. 5}

\* The vertical I scored at column 6 of that board.
VerticalIAtGap ==
  /\ call.fn = "simulateCandidateScore"
  /\ Occupied(board) = BottomRowButLast
  /\ currentPiece.type = 0
  /\ call.rot \in {1, 3}
  /\ call.x = 6

\* C16 as stated: on that board the vertical I dropped at column 6 lands at
\* row 9, column 6, completes the bottom row and is scored with
\* clearedLines = 1.
C16_LandsAtRow9 ==
  VerticalIAtGap =>
    /\ call.landingY = 9
    /\ call.linesCleared = 1

\* C16 amended: on that board the vertical I dropped at column 6 has landing
\* row 6: it comes to rest on rows 6..9 of column 6, its lowest block at
\* row 9, column 6; that completes the bottom row and no other, and the
\* candidate is scored with clearedLines = 1.
C16_RestsOnBottomRow ==
  VerticalIAtGap =>
    /\ call.landingY = 6
    /\ BlockCells(0, call.rot, call.x, call.landingY) = {<<r, 6>> : r \in 6 .. 9}
    /\ FullRows(Occupied(call.temp)) = {9}
    /\ call.linesCleared = 1

C16_Witness == VerticalIAtGap /\ call.rot = 3

\* C17: of two candidates with the same landing row, the same number of
\* cleared lines and the same max height, the one with more holes has the
\* strictly lower score: for the candidates scored in one search, and for
\* the score formula at every other hole count.
C17_MoreHolesLowerScore ==
  /\ call.fn = "findBestPlacement" =>
       \A c, d \in call.cands :
         (/\ c.landingY = d.landingY
          /\ c.linesCleared = d.linesCleared
          /\ c.maxHeight = d.maxHeight
          /\ c.holes > d.holes) => c.score < d.score
  /\ call.fn = "simulateCandidateScore" =>
       \A holes \in 0 .. (BOARD_WIDTH * BOARD_HEIGHT) :
         LET other == scoreFormula(call.landingY, holes, call.linesCleared,
                                   call.maxHeight)
         IN  /\ holes > call.holes => other < call.score
             /\ holes < call.holes => other > call.score

\* A search with two such candidates, one of them without a hole.
C17_Witness ==
  /\ call.fn = "findBestPlacement"
  /\ \E c, d \in call.cands :
       /\ c.landingY = d.landingY
       /\ c.linesCleared = d.linesCleared
       /\ c.maxHeight = d.maxHeight
       /\ c.holes > 0
       /\ d.holes = 0

\* --------------------------------------------------- ball and brick game
PresentBricks(br) == {cell \in BrickRows \X BrickCols : br[cell[1]][cell[2]]}

\* The game as initializeGame leaves it.
FreshGame ==
  /\ paddle = [x |-> 3, y |-> 9]
  /\ ball = [x |-> 3, y |-> 8, dx |-> 1, dy |-> -1]
  /\ Cardinality(PresentBricks(bricks)) = 21
  /\ brickGameOver = FALSE

\* C19: at the end of every moveBall at least one brick is present; in the
\* update that removes the last brick currentBrickColorIndex advances by one
\* modulo 3 and the game is initialised with all 21 bricks; no other update
\* changes the index.
C19_WinRotatesColorAndRefills ==
  /\ [](PresentBricks(bricks) # {})
  /\ [][/\ (shown'.removed /\ Cardinality(PresentBricks(bricks)) = 1) =>
             /\ shown'.won
             /\ currentBrickColorIndex' = (currentBrickColorIndex + 1) % 3
             /\ FreshGame'
        /\ currentBrickColorIndex' # currentBrickColorIndex =>
             (shown'.removed /\ Cardinality(PresentBricks(bricks)) = 1)]_vars

\* A win that took the colour index from 2 back to 0.
C19_Witness ==
  /\ shown.op = "update"
  /\ shown.won
  /\ currentBrickColorIndex = 0
  /\ FreshGame

OnMatrix(x, y) == x \in 0 .. (MATRIX_WIDTH - 1) /\ y \in 0 .. (MATRIX_HEIGHT - 1)

\* C21: after every number of updateState calls from the centre (3, 5) in
\* any of the 8 directions, the centre of the line and both its endpoints
\* (x - dx, y - dy) and (x + dx, y + dy) are on the 7x10 matrix.
C21_LineStaysOnMatrix ==
  /\ OnMatrix(currentState.x, currentState.y)
  /\ OnMatrix(currentState.x - currentState.dx, currentState.y - currentState.dy)
  /\ OnMatrix(currentState.x + currentState.dx, currentState.y + currentState.dy)

\* -------------------------------------------------------------- clearLines
FullRow(b, r) == \A c \in Cols : b[r][c] # Black

FullRowsOf(b) == {r \in Rows : FullRow(b, r)}

\* The rows of b from top to bottom, as a sequence.
RowSeq(b) == [i \in 1 .. BOARD_HEIGHT |-> b[i - 1]]

\* The rows of b that are not full, in their order from top to bottom.
KeptRows(b) == SelectSeq(RowSeq(b), LAMBDA row : \E c \in Cols : row[c] = Black)

OccupiedCells(b) == Cardinality(Occupied(b))

\* C22: after clearLines no row is full, the rows that were not full are
\* the bottom rows of the board in their order and with their contents, under
\* one empty row per row that was full, and the number of occupied cells has
\* dropped by 7 times the number of rows that were full.
C22_ClearLinesRemovesFullRows ==
  call.fn = "clearLines" =>
    \E k \in {Cardinality(FullRowsOf(call.before))} :
      /\ FullRowsOf(board) = {}
      /\ call.lines = k
      /\ SubSeq(RowSeq(board), k + 1, BOARD_HEIGHT) = KeptRows(call.before)
      /\ \A r \in 0 .. (k - 1) : board[r] = clearBoard[r]
      /\ OccupiedCells(board) = OccupiedCells(call.before) - BOARD_WIDTH * k

\* Two rows were full, with a row between them and a row above them that
\* were not full and not empty.
C22_Witness ==
  /\ call.fn = "clearLines"
  /\ call.lines = 2
  /\ \E r \in 1 .. (BOARD_HEIGHT - 3) :
       /\ FullRowsOf(call.before) = {r, r + 2}
       /\ \E c \in Cols : call.before[r - 1][c] # Black
       /\ \E c \in Cols : call.before[r + 1][c] # Black

\* ------------------------------------------------------- the game update
\* A piece as spawnPiece leaves it.
FreshPiece(p) ==
  /\ p.type \in PieceTypes
  /\ p.rotation = 0
  /\ p.y = 0
  /\ p.x = (BOARD_WIDTH - (1 + RightmostOffset(p.type, 0))) \div 2

\* C23: on every game update with gameOver false, the piece as the strategic
\* move left it descends exactly one row when that is legal; otherwise its
\* 4 blocks are locked into the board, the full rows are cleared and a new
\* piece is spawned. A piece is locked at the latest by the 10th game update
\* after its spawn.
C23_TickProgress ==
  /\ [](last.op = "tick" => last.age <= BOARD_HEIGHT)
  /\ [][~gameOver =>
          \E m \in {last'.moved} :
            IF canPlace(board, m, m.x, m.y + 1, m.rotation)
              THEN /\ ~last'.locked
                   /\ currentPiece' = [m EXCEPT !.y = m.y + 1]
                   /\ board' = board
              ELSE /\ last'.locked
                   /\ FullRowsOf(board') = {}
                   /\ OccupiedCells(board') =
                        OccupiedCells(board) + 4 - BOARD_WIDTH * last'.cleared
                   /\ FreshPiece(currentPiece')]_vars

\* A piece that fell from row 0 to row 9 and was locked by the 10th game
\* update after its spawn.
C23_Witness ==
  /\ last.op = "tick"
  /\ last.locked
  /\ last.age = BOARD_HEIGHT
  /\ last.moved.y = BOARD_HEIGHT - 1

\* The live piece p has a rotation of the table and its 4 blocks on 4
\* distinct empty cells of board b.
LegalPiece(b, p) ==
  /\ p.rotation \in 0 .. 3
  /\ Cardinality(BlockCells(p.type, p.rotation, p.x, p.y)) = 4
  /\ Legal(b, p.type, p.rotation, p.x, p.y)

\* C24: while gameOver is false the live piece is legal on the live board:
\* after spawn and after every descent (every state), and after every
\* strategic or random-error move (the piece as the move left it, on the
\* board of the update). lockPiece writes the piece's 4 cells, which were
\* empty, and no other cell.
C24_ActivePieceLegal ==
  /\ [](~gameOver => LegalPiece(board, currentPiece))
  /\ [][~gameOver =>
          \E m \in {last'.moved} :
            /\ LegalPiece(board, m)
            /\ Occupied(lockPiece(board, m)) =
                 Occupied(board) \cup BlockCells(m.type, m.rotation, m.x, m.y)
            /\ OccupiedCells(lockPiece(board, m)) = OccupiedCells(board) + 4]_vars

\* A random-error move shifted a piece that is not in its spawn rotation,
\* and the piece was locked where the move left it.
C24_Witness ==
  /\ ~gameOver
  /\ last.op = "tick"
  /\ last.err
  /\ last.locked
  /\ last.moved.x # last.start.x
  /\ last.moved.rotation # 0

\* ------------------------------------------------- the search in play
\* The latest game update called findBestPlacement.
Searched(l) == l.op = "tick" /\ ~l.err

\* What holds of every call of findBestPlacement a game update makes, on
\* the board of the update: the live piece's spawn placement is legal at
\* row 0, at least one candidate was scored, and the returned placement is
\* one that is legal at row 0.
CandidateInPlay ==
  Searched(last') =>
    \E p \in {last'.start} :
      /\ Legal(board, p.type, 0, (BOARD_WIDTH - (1 + RightmostOffset(p.type, 0))) \div 2, 0)
      /\ last'.scored >= 1
      /\ Legal(board, p.type, last'.target[2], last'.target[1], 0)

\* C25 as stated: every call of findBestPlacement in the game loop has a
\* candidate that is legal at row 0, and the call never returns the values
\* chosenX = currentPiece.x and chosenRot = currentPiece.rotation.
C25_NeverReturnsCurrentPlacement ==
  [][/\ CandidateInPlay
     /\ Searched(last') => last'.target # <<last'.start.x, last'.start.rotation>>]_vars

\* C25: every call of findBestPlacement in the game loop has a candidate
\* that is legal at row 0, the piece's spawn placement, so the call scores
\* at least one candidate and returns a scored one, never the unscored
\* initial values.
C25_CandidateAlwaysScored == [][CandidateInPlay]_vars

\* The search returned the column and rotation the piece already has: a
\* scored candidate that equals the initial values.
C25_Witness ==
  /\ Searched(last)
  /\ last.scored >= 1
  /\ last.target = <<last.start.x, last.start.rotation>>
  /\ last.start.y > 0

\* <<bestX, bestRotation>> of findBestPlacement for a piece of the given
\* type as spawnPiece places it on board b.
TargetAtSpawn(b, type) ==
  Bind(LAMBDA best : <<best.bestX, best.bestRotation>>,
       findBestPlacement(b, spawnPiece(b, type, FALSE).currentPiece))

\* C26: every call of findBestPlacement in a piece's life returns what the
\* call on the freshly spawned piece returns on the same board, whatever the
\* live piece's x, y and rotation are; and an update that does not lock the
\* piece leaves the board and the piece's type as they are. So all calls
\* from a spawn to the lock return the same (rotation, column).
C26_StableTarget ==
  [][(~gameOver /\ Searched(last')) =>
       /\ last'.target = TargetAtSpawn(board, last'.start.type)
       /\ ~last'.locked => /\ board' = board
                           /\ currentPiece'.type = last'.start.type]_vars

\* A search late in a piece's life: the piece has left its spawn row, column
\* and rotation, and is not at the target yet.
C26_Witness ==
  /\ Searched(last)
  /\ last.age >= 3
  /\ last.start.y >= 2
  /\ last.start.rotation # 0
  /\ last.start.x # (BOARD_WIDTH - (1 + RightmostOffset(last.start.type, 0))) \div 2
  /\ last.target # <<last.start.x, last.start.rotation>>

\* ------------------------------------------------ ball and brick ranges
\* C27: at the end of every moveBall call, whatever offsets the paddle was
\* given, the ball is at 0 <= ball.x <= 6, 0 <= ball.y <= 9 and the paddle
\* column is in 0 .. 4; and every read of bricks[ball.y][ball.x] in the call
\* was at 0 <= ball.y <= 2, 0 <= ball.x <= 6.
C27_BallStaysInRange ==
  shown.op = "update" =>
    /\ ball.x \in 0 .. 6
    /\ ball.y \in 0 .. 9
    /\ paddle.x \in 0 .. 4
    /\ shown.access # NoAccess =>
         /\ shown.access[1] \in 0 .. 2
         /\ shown.access[2] \in 0 .. 6

\* A call in which the ball bounced off the top wall, read bricks on row 0,
\* removed the brick there and was left on row 0 by max(ball.y, 0).
C27_Witness ==
  /\ shown.op = "update"
  /\ shown.access # NoAccess
  /\ shown.access[1] = 0
  /\ shown.removed
  /\ ball.y = 0
  /\ ball.dy = -1

====
